---- MODULE Spec2Model ----
(***************************************************************************)
(* Model of stable_z_home.py: the STABLE_Z_HOME command of class           *)
(* StableZHome, which homes Z repeatedly until a window of stepper         *)
(* positions passes the drift-compensated tolerance test.                  *)
(*                                                                         *)
(* Positions, offsets and tolerances are Python floats in the source.      *)
(* They are modelled in fixed point, one unit = 1e-6 (so 18 is 18000000,   *)
(* 1/1000. is 1000 and 1e-4 is 100); the arithmetic of the source          *)
(* (+, -, *, abs, max, min, <=) is exact on these values.                  *)
(* An optional value (Python None) is the empty sequence, a present value  *)
(* v is <<v>>.  A stepper name is the sequence of its characters.          *)
(***************************************************************************)
EXTENDS Integers, Sequences, FiniteSets, TLC

\* ------------------------------------------------------------- bounds
\* Largest RETRIES value an invocation is given (caps the retry loop).
MaxRetries == 4

\* ------------------------------------------------- program constants
\* config.getint("retries", 20, minval=0)
DefaultRetries == 20
MinRetries == 0
\* config.getfloat("retry_tolerance", 1 / 400., above=1/1000.)
DefaultTolerance == 2500
AboveTolerance == 1000
\* config.getint("window", 4, minval=3)
DefaultWindow == 4
MinWindow == 3
\* gcmd.get_int('RETRIES', ..., minval=0)
CmdMinRetries == 0
\* gcmd.get_float('RETRY_TOLERANCE', ..., minval=1/1000.)
CmdMinTolerance == 1000
\* gcmd.get_int('WINDOW', ..., minval=3)
CmdMinWindow == 3
\* retry_tolerance += 1e-4
Epsilon == 100
\* stepper_pos_offset = 18 + (zOffset * 5)
BaseOffset == 18000000
ScaleFactor == 5
\* stepper_window_range_offset = stepper_pos_offset * 3
WindowMultiplier == 3
\* '%.4f': four decimals, i.e. multiples of 100 units
FmtStep == 100

None == <<>>
Some(v) == <<v>>
IsNone(o) == o = <<>>
Val(o) == o[1]

NoError == ""

\* ---------------------------------------------------------- helpers
Abs(x) == IF x < 0 THEN -x ELSE x

\* max(mcu_z_readings), min(mcu_z_readings) of a non-empty list
Max(s) == CHOOSE m \in {s[i] : i \in 1..Len(s)} :
            \A i \in 1..Len(s) : s[i] <= m
Min(s) == CHOOSE m \in {s[i] : i \in 1..Len(s)} :
            \A i \in 1..Len(s) : m <= s[i]

\* Python slice s[-n:] for n >= 1: the last n elements, all when shorter.
\* (s[-0:] is s[0:], the whole list.)
LastN(s, n) ==
  IF n = 0 \/ Len(s) <= n THEN s ELSE SubSeq(s, Len(s) - n + 1, Len(s))

\* '%.4f' % x: x rounded to the nearest multiple of 1e-4 (ties to even),
\* kept as the number the text denotes.
Fmt4(x) ==
  LET a == Abs(x)
      q == a \div FmtStep
      r == a % FmtStep
      up == (2 * r > FmtStep) \/ (2 * r = FmtStep /\ q % 2 = 1)
      m == (IF up THEN q + 1 ELSE q) * FmtStep
  IN IF x < 0 THEN -m ELSE m

\* str.startswith
StartsWith(s, p) == Len(s) >= Len(p) /\ SubSeq(s, 1, Len(p)) = p

StepperZPrefix == <<"s","t","e","p","p","e","r","_","z">>
Stepper_x  == <<"s","t","e","p","p","e","r","_","x">>
Stepper_y  == <<"s","t","e","p","p","e","r","_","y">>
Stepper_z  == <<"s","t","e","p","p","e","r","_","z">>
Stepper_z1 == <<"s","t","e","p","p","e","r","_","z","1">>
Stepper_   == <<"s","t","e","p","p","e","r","_">>

\* Variant of FindZStepper: the prefix tested is 'stepper_'.
FindZStepper_AnyAxis(steppers) ==
  LET hits == {i \in 1..Len(steppers) : StartsWith(steppers[i], Stepper_)}
  IN IF hits = {} THEN None
     ELSE Some(steppers[CHOOSE i \in hits : \A j \in hits : i <= j])

\* for s in steppers: if s.get_name().startswith('stepper_z'): stepper = s; break
\* The first matching stepper, None when there is none.
FindZStepper(steppers) ==
  LET hits == {i \in 1..Len(steppers) : StartsWith(steppers[i], StepperZPrefix)}
  IN IF hits = {} THEN None
     ELSE Some(steppers[CHOOSE i \in hits : \A j \in hits : i <= j])

\* config.getint / config.getfloat: an absent option yields the default
\* unchecked; a present one is checked against minval (v < minval fails) and
\* above (v <= above fails).  Result: <<ok, value>>.
ConfigGet(opt, default, minval, above) ==
  IF IsNone(opt) THEN <<TRUE, default>>
  ELSE IF ~IsNone(minval) /\ Val(opt) < Val(minval) THEN <<FALSE, 0>>
  ELSE IF ~IsNone(above) /\ Val(opt) <= Val(above) THEN <<FALSE, 0>>
  ELSE <<TRUE, Val(opt)>>

\* Variant of GcmdGet: minval is not applied.
GcmdGet_Unchecked(param, default, minval) ==
  IF IsNone(param) THEN <<TRUE, default>> ELSE <<TRUE, Val(param)>>

\* gcmd.get_int / gcmd.get_float: an absent parameter yields the default
\* unchecked; a present one is checked against minval.
GcmdGet(param, default, minval) ==
  IF IsNone(param) THEN <<TRUE, default>>
  ELSE IF Val(param) < minval THEN <<FALSE, 0>>
  ELSE <<TRUE, Val(param)>>

\* stepper_pos_offset = 18 + (zOffset * 5)
StepperPosOffset(zOffset) == BaseOffset + (zOffset * ScaleFactor)

\* stepper_window_range_offset = stepper_pos_offset * 3
StepperWindowRangeOffset(zOffset) == StepperPosOffset(zOffset) * WindowMultiplier

\* Variant of PushReading: the slice is [:window], which drops the newest.
PushReading_KeepOldest(readings, mcu_pos, window) ==
  LET s == Append(readings, mcu_pos)
  IN IF Len(s) <= window THEN s ELSE SubSeq(s, 1, window)

\* mcu_z_readings.append(mcu_pos); mcu_z_readings = mcu_z_readings[-window:]
PushReading(readings, mcu_pos, window) == LastN(Append(readings, mcu_pos), window)

\* Variant of WindowRange: abs() is missing.
WindowRange_NoAbs(readings, window, zOffset) ==
  IF Len(readings) = window
  THEN Some((Max(readings) - Min(readings)) - StepperWindowRangeOffset(zOffset))
  ELSE None

\* Variant of WindowRange: the value is the one the progress report prints,
\* rounded to four decimals.
WindowRange_Rounded(readings, window, zOffset) ==
  IF Len(readings) = window
  THEN Some(Fmt4(Abs((Max(readings) - Min(readings))
                     - StepperWindowRangeOffset(zOffset))))
  ELSE None

\* Variant of WindowRange: the range is taken of a partial window too.
WindowRange_Partial(readings, window, zOffset) ==
  IF Len(readings) >= 1
  THEN Some(Abs((Max(readings) - Min(readings)) - StepperWindowRangeOffset(zOffset)))
  ELSE None

\* window_range: abs((max - min) - offset) on a full window, else None
WindowRange(readings, window, zOffset) ==
  IF Len(readings) = window
  THEN Some(Abs((Max(readings) - Min(readings)) - StepperWindowRangeOffset(zOffset)))
  ELSE None

\* Variant of Converges: the bound is exclusive.
Converges_Strict(window_range, retry_tolerance) ==
  ~IsNone(window_range) /\ Val(window_range) < retry_tolerance

\* if window_range is not None and window_range <= retry_tolerance
Converges(window_range, retry_tolerance) ==
  ~IsNone(window_range) /\ Val(window_range) <= retry_tolerance

\* Variant of LoopGuard: one retry too many is run.
LoopGuard_OneMore(r, m) == r <= m + 1

\* Variant of LoopGuard: the last retry is not run.
LoopGuard_Strict(r, m) == r < m

\* while retries <= max_retries
LoopGuard(r, m) == r <= m

\* Variant of RetriesExceeded: the last retry counts as exceeded.
RetriesExceeded_Inclusive(r, m) == r >= m

\* if retries > max_retries (after the loop)
RetriesExceeded(r, m) == r > m

\* Variant of CalibrationInput: the Z offset of the previous iteration is
\* used again.
CalibrationInput_Cached(read, previous) == previous

\* zOffset = self.gcode_move.get_status()['homing_origin'].z: the value read
\* now, whatever the local held before.
CalibrationInput(read, previous) == read

\* Variant of LastReading: the oldest reading of the window.
LastReading_Oldest(readings) ==
  IF readings # <<>> THEN Some(readings[1]) ELSE None

\* last_mcu_pos = mcu_z_readings[-1] if mcu_z_readings else None
LastReading(readings) ==
  IF readings # <<>> THEN Some(readings[Len(readings)]) ELSE None

\* Variant of NextRetries: the counter is incremented before the break too.
NextRetries_Always(r, converged) == r + 1

\* break leaves retries as it is; otherwise retries += 1
NextRetries(r, converged) == IF converged THEN r ELSE r + 1

\* ------------------------------------------------------------ inputs
\* Options of the [stable_z_home] config section (absent or a value).
CfgRetries   == {None, Some(-1)}
CfgTolerance == {None, Some(1000)}
CfgWindow    == {None, Some(2)}

\* Parameters of one STABLE_Z_HOME command line (absent or a value).
ArgRetries   == {Some(-1)} \cup {Some(n) : n \in 0..MaxRetries}
ArgTolerance == {None, Some(999), Some(1000)}
ArgWindow    == {None, Some(2), Some(3)}

\* kin.get_status(curtime)['homed_axes'], as the set of its letters.
HomedAxes == {{}, {"x"}, {"y", "z"}, {"x", "y"}}
\* kin.get_steppers(), as the list of the steppers' names.
StepperLists == {<<Stepper_x, Stepper_y>>, <<Stepper_>>,
                 <<Stepper_x, Stepper_y, Stepper_z, Stepper_z1>>}

\* stepper.get_commanded_position() and stepper.mcu_to_commanded_position(0)
CommandedPositions == {0, 54001100}
McuZeroPositions == {0, -1}
\* gcode_move.get_status()['homing_origin'].z
ZOffsets == {0, -3600000}
\* What a failing before-homing script raises (any Exception).
ScriptErrors == {"Unknown command", "Must home axis first"}
\* What a failing 'G28 Z' script raises.
HomingErrors == {"Endstop z still triggered after retract",
                 "No trigger on z after full movement"}

NoCommand == [RETRIES |-> None, RETRY_TOLERANCE |-> None, WINDOW |-> None]

\* ------------------------------------------------------------- state
VARIABLES
  pc,                      \* position in __init__ / cmd_STABLE_Z_HOME
  config,                  \* options of the config section
  default_max_retries,     \* self.default_max_retries
  default_retry_tolerance, \* self.default_retry_tolerance
  default_window,          \* self.default_window
  toolhead,                \* whether lookup_object('toolhead', None) finds one
  homed_axes,              \* the kinematics' homed axes
  steppers,                \* the kinematics' steppers (names)
  gcmd,                    \* parameters of the command being run
  max_retries,             \* local max_retries
  retry_tolerance,         \* local retry_tolerance (after += 1e-4 in the loop)
  window,                  \* local window
  stepper,                 \* local stepper (its name), None before the lookup
  mcu_z_readings,          \* local mcu_z_readings
  retries,                 \* local retries
  zOffset,                 \* local zOffset of the latest iteration
  mcu_pos,                 \* local mcu_pos of the latest iteration
  window_range,            \* local window_range of the latest iteration
  responses,               \* what gcode.respond_info was given, in order
  raised,                  \* message of the exception that ended the call
  calls,                   \* the scripts run so far and how each ended
  pushed_log,              \* every mcu_pos appended, in order
  zOffset_log              \* the zOffset read in each iteration, in order

vars == <<pc, config, default_max_retries, default_retry_tolerance,
          default_window, toolhead, homed_axes, steppers, gcmd, max_retries,
          retry_tolerance, window, stepper, mcu_z_readings, retries, zOffset,
          mcu_pos, window_range, responses, raised, calls, pushed_log,
          zOffset_log>>

printer == <<toolhead, homed_axes, steppers>>
defaults == <<default_max_retries, default_retry_tolerance, default_window>>
locals == <<max_retries, retry_tolerance, window, stepper, mcu_z_readings,
            retries, zOffset, mcu_pos, window_range>>
logs == <<pushed_log, zOffset_log>>

Init ==
  /\ pc = "load_config"
  /\ config \in [retries : CfgRetries, retry_tolerance : CfgTolerance,
                 window : CfgWindow]
  /\ default_max_retries = 0
  /\ default_retry_tolerance = 0
  /\ default_window = 0
  /\ toolhead \in BOOLEAN
  /\ homed_axes \in HomedAxes
  /\ steppers \in StepperLists
  /\ gcmd = NoCommand
  /\ max_retries = 0
  /\ retry_tolerance = 0
  /\ window = 0
  /\ stepper = None
  /\ mcu_z_readings = <<>>
  /\ retries = 0
  /\ zOffset = 0
  /\ mcu_pos = 0
  /\ window_range = None
  /\ responses = <<>>
  /\ raised = NoError
  /\ calls = <<>>
  /\ pushed_log = <<>>
  /\ zOffset_log = <<>>

\* ----------------------------------------------------------- actions
\* StableZHome.__init__: read the three defaults; a rejected option raises
\* and no command is registered.
Construct ==
  /\ pc = "load_config"
  /\ LET r == ConfigGet(config.retries, DefaultRetries, Some(MinRetries), None)
         t == ConfigGet(config.retry_tolerance, DefaultTolerance, None,
                        Some(AboveTolerance))
         w == ConfigGet(config.window, DefaultWindow, Some(MinWindow), None)
     IN IF ~r[1] THEN
          /\ raised' = "Option 'retries' must have minimum of 0"
          /\ pc' = "config_error"
          /\ UNCHANGED defaults
        ELSE IF ~t[1] THEN
          /\ raised' = "Option 'retry_tolerance' must be above 0.001"
          /\ pc' = "config_error"
          /\ UNCHANGED defaults
        ELSE IF ~w[1] THEN
          /\ raised' = "Option 'window' must have minimum of 3"
          /\ pc' = "config_error"
          /\ UNCHANGED defaults
        ELSE
          /\ default_max_retries' = r[2]
          /\ default_retry_tolerance' = t[2]
          /\ default_window' = w[2]
          /\ pc' = "ready"
          /\ UNCHANGED raised
  /\ UNCHANGED <<config, printer, gcmd, locals, responses, calls, logs>>

\* The call ends by raising an error with message msg.
Raise(msg) ==
  /\ raised' = msg
  /\ pc' = "done"

\* cmd_STABLE_Z_HOME up to the loop: the three parameters, the toolhead,
\* the homed axes, the Z stepper, the opening report and the loop's locals.
Invoke(params) ==
  /\ pc = "ready"
  /\ gcmd' = params
  /\ LET r == GcmdGet(params.RETRIES, default_max_retries, CmdMinRetries)
         t == GcmdGet(params.RETRY_TOLERANCE, default_retry_tolerance,
                      CmdMinTolerance)
         w == GcmdGet(params.WINDOW, default_window, CmdMinWindow)
         s == FindZStepper(steppers)
         fail(msg) == /\ Raise(msg)
                      /\ UNCHANGED <<locals, responses>>
     IN IF ~r[1] THEN fail("Error on 'RETRIES': must have minimum of 0")
        ELSE IF ~t[1] THEN
          fail("Error on 'RETRY_TOLERANCE': must have minimum of 0.001")
        ELSE IF ~w[1] THEN fail("Error on 'WINDOW': must have minimum of 3")
        ELSE IF ~toolhead THEN fail("Printer not ready")
        ELSE IF "x" \notin homed_axes \/ "y" \notin homed_axes THEN
          fail("Must home X and Y axes first")
        ELSE IF IsNone(s) THEN fail("No Z steppers found")
        ELSE
          /\ r[2] <= MaxRetries
          /\ max_retries' = r[2]
          /\ window' = w[2]
          /\ stepper' = s
          /\ responses' = Append(responses,
                [msg |-> "Stable Z home", tolerance |-> Fmt4(t[2]),
                 window |-> w[2], max_retries |-> r[2]])
          /\ mcu_z_readings' = <<>>
          /\ retries' = 1
          /\ retry_tolerance' = t[2] + Epsilon
          /\ pc' = "while"
          /\ UNCHANGED <<raised, zOffset, mcu_pos, window_range>>
  /\ UNCHANGED <<config, defaults, printer, calls, logs>>

\* while retries <= max_retries: enter the body, or leave the loop.
LoopTest ==
  /\ pc = "while"
  /\ pc' = IF LoopGuard(retries, max_retries) THEN "pre_home" ELSE "post_loop"
  /\ UNCHANGED <<config, defaults, printer, gcmd, locals, responses, raised,
                 calls, logs>>

\* Variant of PreHomeReturns: the script is run twice in an iteration.
PreHomeReturns_Twice ==
  /\ pc = "pre_home"
  /\ calls' = calls \o <<[script |-> "pre_home", error |-> NoError],
                         [script |-> "pre_home", error |-> NoError]>>
  /\ pc' = "home"
  /\ UNCHANGED <<config, defaults, printer, gcmd, locals, responses, raised,
                 logs>>

\* run_script_from_command(before_homing_gcode.render()) returns.
PreHomeReturns ==
  /\ pc = "pre_home"
  /\ calls' = Append(calls, [script |-> "pre_home", error |-> NoError])
  /\ pc' = "home"
  /\ UNCHANGED <<config, defaults, printer, gcmd, locals, responses, raised,
                 logs>>

\* Variant of PreHomeRaises: the exception is swallowed and the next retry
\* is started.
PreHomeRaises_Retry(err) ==
  /\ pc = "pre_home"
  /\ calls' = Append(calls, [script |-> "pre_home", error |-> err])
  /\ retries' = retries + 1
  /\ pc' = "while"
  /\ UNCHANGED <<config, defaults, printer, gcmd, max_retries,
                 retry_tolerance, window, stepper, mcu_z_readings, zOffset,
                 mcu_pos, window_range, responses, raised, logs>>

\* The before-homing script raises: except Exception -> gcode.error.
PreHomeRaises(err) ==
  /\ pc = "pre_home"
  /\ calls' = Append(calls, [script |-> "pre_home", error |-> err])
  /\ Raise("Pre-home Gcode failed")
  /\ UNCHANGED <<config, defaults, printer, gcmd, locals, responses, logs>>

\* run_script_from_command('G28 Z') returns.
HomeReturns ==
  /\ pc = "home"
  /\ calls' = Append(calls, [script |-> "G28 Z", error |-> NoError])
  /\ pc' = "measure"
  /\ UNCHANGED <<config, defaults, printer, gcmd, locals, responses, raised,
                 logs>>

\* Variant of HomeRaises: the homing is inside the try block, so its error
\* is reported as the before-homing script's.
HomeRaises_Converted(err) ==
  /\ pc = "home"
  /\ calls' = Append(calls, [script |-> "G28 Z", error |-> err])
  /\ Raise("Pre-home Gcode failed")
  /\ UNCHANGED <<config, defaults, printer, gcmd, locals, responses, logs>>

\* 'G28 Z' raises err: nothing catches it.
HomeRaises(err) ==
  /\ pc = "home"
  /\ calls' = Append(calls, [script |-> "G28 Z", error |-> err])
  /\ Raise(err)
  /\ UNCHANGED <<config, defaults, printer, gcmd, locals, responses, logs>>

\* The rest of the loop body: read the position and the Z offset, report the
\* difference to the last reading, push, compute the window range, report,
\* then either 'Succeeded' and break, or retries += 1.
Measure(commanded, mcu_zero, z) ==
  /\ pc = "measure"
  /\ LET mcu_position_offset == -mcu_zero
         pos == commanded + mcu_position_offset
         zo == CalibrationInput(z, zOffset)
         stepper_pos_offset == StepperPosOffset(zo)
         last_mcu_pos == LastReading(mcu_z_readings)
         diff == IF ~IsNone(last_mcu_pos)
                 THEN LET d == pos - Val(last_mcu_pos) - stepper_pos_offset
                      IN <<[msg |-> "stepper_z diff", value |-> d,
                            text |-> Fmt4(d)]>>
                 ELSE <<>>
         readings == PushReading(mcu_z_readings, pos, window)
         range == WindowRange(readings, window, zo)
         converged == Converges(range, retry_tolerance)
         report == <<[msg |-> "Retry", retry |-> retries,
                      name |-> Val(stepper), position |-> Fmt4(pos),
                      window_range |-> IF IsNone(range) THEN None
                                       ELSE Some(Fmt4(Val(range)))]>>
     IN /\ zOffset' = zo
        /\ mcu_pos' = pos
        /\ mcu_z_readings' = readings
        /\ window_range' = range
        /\ pushed_log' = Append(pushed_log, pos)
        /\ zOffset_log' = Append(zOffset_log, z)
        /\ retries' = NextRetries(retries, converged)
        /\ IF converged
           THEN /\ responses' = responses \o diff \o report
                                  \o <<[msg |-> "Succeeded"]>>
                /\ pc' = "post_loop"
           ELSE /\ responses' = responses \o diff \o report
                /\ pc' = "while"
  /\ UNCHANGED <<config, defaults, printer, gcmd, max_retries,
                 retry_tolerance, window, stepper, raised, calls>>

\* if retries > max_retries: raise gcode.error('Max retries exceeded\n');
\* otherwise the command returns.
PostLoop ==
  /\ pc = "post_loop"
  /\ IF RetriesExceeded(retries, max_retries)
     THEN Raise("Max retries exceeded")
     ELSE /\ pc' = "done"
          /\ UNCHANGED raised
  /\ UNCHANGED <<config, defaults, printer, gcmd, locals, responses, calls,
                 logs>>

Next ==
  \/ Construct
  \/ \E r \in ArgRetries, t \in ArgTolerance, w \in ArgWindow :
       Invoke([RETRIES |-> r, RETRY_TOLERANCE |-> t, WINDOW |-> w])
  \/ LoopTest
  \/ PreHomeReturns
  \/ \E err \in ScriptErrors : PreHomeRaises(err)
  \/ HomeReturns
  \/ \E err \in HomingErrors : HomeRaises(err)
  \/ \E c \in CommandedPositions, m \in McuZeroPositions, z \in ZOffsets :
       Measure(c, m, z)
  \/ PostLoop

Spec == Init /\ [][Next]_vars

\* The steps of Next with mcu_to_commanded_position(0) always 0.
NextFair ==
  \/ Construct
  \/ \E r \in ArgRetries, t \in ArgTolerance, w \in ArgWindow :
       Invoke([RETRIES |-> r, RETRY_TOLERANCE |-> t, WINDOW |-> w])
  \/ LoopTest
  \/ PreHomeReturns
  \/ \E err \in ScriptErrors : PreHomeRaises(err)
  \/ HomeReturns
  \/ \E err \in HomingErrors : HomeRaises(err)
  \/ \E c \in CommandedPositions, z \in ZOffsets : Measure(c, 0, z)
  \/ PostLoop

\* The command runs synchronously and every external call returns or
\* raises, so a step that can be taken is taken.
FairSpec == Init /\ [][NextFair]_vars /\ WF_vars(NextFair)

\* ------------------------------------------- worked scenarios
\* The same command on a ready printer with an empty config section, the
\* Z offset constantly 0 and positions taken from two worked examples:
\* 10.0, 10.05, 9.98 (then possibly 63.99, which brings the range of the
\* next window of 3 to 54.01), and 10, 28, 46, 64, each 18 above the last.
ScenarioPositions == {9980000, 10000000, 10050000, 63990000,
                      28000000, 46000000, 64000000}
ScenarioRetries == {Some(n) : n \in 0..MaxRetries}
ScenarioTolerance == {Some(10000)}
ScenarioWindow == {None, Some(3)}

InitScenario ==
  /\ Init
  /\ config = [retries |-> None, retry_tolerance |-> None, window |-> None]
  /\ toolhead
  /\ homed_axes = {"x", "y"}
  /\ steppers = <<Stepper_x, Stepper_y, Stepper_z, Stepper_z1>>

NextScenario ==
  \/ Construct
  \/ \E r \in ScenarioRetries, t \in ScenarioTolerance, w \in ScenarioWindow :
       Invoke([RETRIES |-> r, RETRY_TOLERANCE |-> t, WINDOW |-> w])
  \/ LoopTest
  \/ PreHomeReturns
  \/ \E err \in ScriptErrors : PreHomeRaises(err)
  \/ HomeReturns
  \/ \E err \in HomingErrors : HomeRaises(err)
  \/ \E c \in ScenarioPositions : Measure(c, 0, 0)
  \/ PostLoop

SpecScenario == InitScenario /\ [][NextScenario]_vars

\* ------------------------------------------------- derived notions
\* Number of runs of the before-homing script and of 'G28 Z' so far.
ScriptRuns(name) == Cardinality({i \in 1..Len(calls) : calls[i].script = name})
PreActionCount == ScriptRuns("pre_home")
HomingCount == ScriptRuns("G28 Z")

\* The command has been invoked (its parameters have been read).
Invoked == pc \in {"while", "pre_home", "home", "measure", "post_loop", "done"}
\* The command is in, or has left, the retry loop.
InLoop == pc \in {"while", "pre_home", "home", "measure", "post_loop"}
ReachedLoop == Invoked /\ retries >= 1

\* 'Succeeded' has been reported (CONVERGED).
Succeeded == \E i \in 1..Len(responses) : responses[i].msg = "Succeeded"
\* 'Max retries exceeded' has been raised (EXHAUSTED).
Exhausted == raised = "Max retries exceeded"
\* A script of an iteration raised and ended the run (FAILED).
Failed == raised = "Pre-home Gcode failed" \/ raised \in HomingErrors
\* The call returned without raising.
Returned == pc = "done" /\ raised = NoError

ConfigErrors == {"Error on 'RETRIES': must have minimum of 0",
                 "Error on 'RETRY_TOLERANCE': must have minimum of 0.001",
                 "Error on 'WINDOW': must have minimum of 3"}
PreconditionErrors == {"Printer not ready", "Must home X and Y axes first",
                       "No Z steppers found"}

\* The tolerance the invocation asked for, before the 1e-4 margin.
UserTolerance ==
  IF IsNone(gcmd.RETRY_TOLERANCE) THEN default_retry_tolerance
  ELSE Val(gcmd.RETRY_TOLERANCE)

\* The samples a window of size `window` holds after the i-th push, and the
\* convergence test of iteration i as the specification states it.
SamplesAt(i) == SubSeq(pushed_log, IF i > window THEN i - window + 1 ELSE 1, i)
SpreadOf(samples, z) ==
  Abs((Max(samples) - Min(samples)) - 3 * (18000000 + 5 * z))
TestAt(i) ==
  /\ Len(SamplesAt(i)) = window
  /\ SpreadOf(SamplesAt(i), zOffset_log[i]) <= UserTolerance + 100

\* ------------------------------------------------------------ claims

\* C1: in every iteration `retry` the run stops as CONVERGED with
\* retries_used = retry if and only if the window holds exactly window_size
\* samples and abs((max - min) - 3*(18 + 5*calibration_input)) is at most
\* retry_tolerance + 1e-4 (inclusive), with the calibration input read in that
\* iteration; so retries_used is the smallest index at which the test holds.
C1_ConvergedIffTest ==
  ReachedLoop =>
    LET n == Len(pushed_log)
    IN /\ Succeeded <=> (n >= 1 /\ TestAt(n))
       /\ Succeeded =>
            /\ retries = n
            /\ responses[Len(responses) - 1].msg = "Retry"
            /\ responses[Len(responses) - 1].retry = n
            /\ Len(mcu_z_readings) = window
       /\ \A i \in 1..n : TestAt(i) => i = n
       /\ (~Succeeded /\ pc \in {"while", "post_loop"}) => retries = n + 1

\* C1 witness: a full window whose spread is exactly retry_tolerance + 1e-4
\* + 1e-6 was rejected, and the next one, whose spread is exactly
\* retry_tolerance + 1e-4, ended the run.
C1_Witness ==
  /\ Succeeded
  /\ Len(pushed_log) > window
  /\ SpreadOf(SamplesAt(Len(pushed_log)), zOffset) = UserTolerance + 100
  /\ SpreadOf(SamplesAt(Len(pushed_log) - 1),
              zOffset_log[Len(pushed_log) - 1]) = UserTolerance + 100 + 1

\* C2: with no iteration passing the test and no script failing the run ends
\* in 'Max retries exceeded' after exactly max_retries iterations
\* (max_retries before-homing scripts, max_retries homings); with
\* max_retries = 0 after none.
C2_ExhaustedAfterMaxRetries ==
  /\ (pc = "done" /\ ReachedLoop /\ ~Failed
        /\ \A i \in 1..Len(pushed_log) : ~TestAt(i))
       => Exhausted
  /\ Exhausted =>
       /\ pc = "done"
       /\ PreActionCount = max_retries
       /\ HomingCount = max_retries
       /\ Len(pushed_log) = max_retries
       /\ retries = max_retries + 1
       /\ ~Succeeded
       /\ \A i \in 1..Len(pushed_log) : ~TestAt(i)

\* C2 witness: a run of max_retries > window_size iterations, every full
\* window tested and rejected, ended in 'Max retries exceeded'.
C2_Witness ==
  /\ Exhausted
  /\ max_retries > window
  /\ HomingCount = max_retries
  /\ ~IsNone(window_range)

\* C3: a before-homing script that raises in iteration n ends the run at once
\* with 'Pre-home Gcode failed': no homing, no sample and no test in
\* iteration n, and no further iteration.
C3_PreHomeFailureIsFatal ==
  \A i \in 1..Len(calls) :
    (calls[i].script = "pre_home" /\ calls[i].error # NoError) =>
      /\ i = Len(calls)
      /\ pc = "done"
      /\ raised = "Pre-home Gcode failed"
      /\ HomingCount = PreActionCount - 1
      /\ Len(pushed_log) = PreActionCount - 1
      /\ retries = PreActionCount
      /\ ~Succeeded
      /\ responses[Len(responses)].msg = "Retry" =>
           responses[Len(responses)].retry = PreActionCount - 1

\* C3 witness: the script of a later iteration raised, on a full window.
C3_Witness ==
  /\ raised = "Pre-home Gcode failed"
  /\ PreActionCount > window
  /\ Len(mcu_z_readings) = window

\* C4: a 'G28 Z' that raises in iteration n ends the run at once with its own
\* error: no sample in iteration n, the window as it was, no test, no further
\* iteration.
C4_HomingFailurePropagates ==
  \A i \in 1..Len(calls) :
    (calls[i].script = "G28 Z" /\ calls[i].error # NoError) =>
      /\ i = Len(calls)
      /\ pc = "done"
      /\ raised = calls[i].error
      /\ raised # "Pre-home Gcode failed"
      /\ PreActionCount = HomingCount
      /\ Len(pushed_log) = HomingCount - 1
      /\ Len(zOffset_log) = HomingCount - 1
      /\ mcu_z_readings = SamplesAt(Len(pushed_log))
      /\ retries = HomingCount
      /\ ~Succeeded
      /\ responses[Len(responses)].msg = "Retry" =>
           responses[Len(responses)].retry = HomingCount - 1

\* C4 witness: the homing of a later iteration raised, on a full window.
C4_Witness ==
  /\ raised \in HomingErrors
  /\ HomingCount > window
  /\ Len(mcu_z_readings) = window

\* The printer fails a precondition of the command: no toolhead, X or Y not
\* homed, or no stepper whose name starts with 'stepper_z'.
PreconditionFails ==
  \/ ~toolhead
  \/ "x" \notin homed_axes
  \/ "y" \notin homed_axes
  \/ \A i \in 1..Len(steppers) :
       \/ Len(steppers[i]) < 9
       \/ SubSeq(steppers[i], 1, 9) # <<"s","t","e","p","p","e","r","_","z">>

\* The parameters of the command are within RETRIES >= 0,
\* RETRY_TOLERANCE >= 0.001 and WINDOW >= 3 (an absent one is).
RetriesInBounds == IsNone(gcmd.RETRIES) \/ Val(gcmd.RETRIES) >= 0
ToleranceInBounds ==
  IsNone(gcmd.RETRY_TOLERANCE) \/ Val(gcmd.RETRY_TOLERANCE) >= 1000
WindowInBounds == IsNone(gcmd.WINDOW) \/ Val(gcmd.WINDOW) >= 3
ParamsInBounds == RetriesInBounds /\ ToleranceInBounds /\ WindowInBounds

\* C5 as stated: when a precondition fails the invocation fails with a
\* precondition error before any iteration, with no script run and neither
\* success nor 'Max retries exceeded' reported.
C5_PreconditionErrorAlways ==
  (Invoked /\ PreconditionFails) =>
    /\ pc = "done"
    /\ raised \in PreconditionErrors
    /\ calls = <<>>
    /\ ~Succeeded
    /\ ~Exhausted

\* C5 amended: when a precondition fails the invocation fails before any
\* iteration, with no script run and neither success nor 'Max retries
\* exceeded' reported; the error is the precondition error when the three
\* parameters are within their bounds, and the parameter's error otherwise.
C5_FailsBeforeAnyIteration ==
  (Invoked /\ PreconditionFails) =>
    /\ pc = "done"
    /\ retries = 0
    /\ calls = <<>>
    /\ pushed_log = <<>>
    /\ responses = <<>>
    /\ ~Succeeded
    /\ ~Exhausted
    /\ ParamsInBounds =>
         raised = IF ~toolhead THEN "Printer not ready"
                  ELSE IF "x" \notin homed_axes \/ "y" \notin homed_axes
                    THEN "Must home X and Y axes first"
                  ELSE "No Z steppers found"
    /\ ~ParamsInBounds => raised \in ConfigErrors

\* C5 witness: parameters in bounds, toolhead present, X and Y homed, and the
\* only stepper is named 'stepper_': the command ended in 'No Z steppers found'.
C5_Witness ==
  /\ Invoked
  /\ ParamsInBounds
  /\ toolhead
  /\ {"x", "y"} \subseteq homed_axes
  /\ steppers = <<Stepper_>>
  /\ raised = "No Z steppers found"

\* C6: a command with RETRIES < 0, RETRY_TOLERANCE < 0.001 or WINDOW < 3 is
\* rejected with the parameter's error before any precondition check or
\* iteration; every invocation that reaches the loop has max_retries >= 0,
\* retry_tolerance >= 0.001 and window >= 3.
C6_ParametersCheckedFirst ==
  /\ (Invoked /\ ~ParamsInBounds) =>
       /\ pc = "done"
       /\ raised =
            IF ~RetriesInBounds
              THEN "Error on 'RETRIES': must have minimum of 0"
            ELSE IF ~ToleranceInBounds
              THEN "Error on 'RETRY_TOLERANCE': must have minimum of 0.001"
            ELSE "Error on 'WINDOW': must have minimum of 3"
       /\ calls = <<>>
       /\ responses = <<>>
       /\ retries = 0
  /\ ReachedLoop =>
       /\ max_retries >= 0
       /\ UserTolerance >= 1000
       /\ retry_tolerance = UserTolerance + 100
       /\ window >= 3

\* C6 witness: WINDOW = 2 on a printer with no toolhead: the parameter's
\* error, not 'Printer not ready'.
C6_Witness ==
  /\ Invoked
  /\ gcmd.WINDOW = Some(2)
  /\ RetriesInBounds /\ ToleranceInBounds
  /\ ~toolhead
  /\ raised = "Error on 'WINDOW': must have minimum of 3"

\* C7: after every iteration mcu_z_readings holds exactly the last
\* min(n, window) samples pushed so far, in push order (n = samples pushed):
\* never more than window, the oldest evicted first.
C7_WindowIsLastSamples ==
  ReachedLoop =>
    LET n == Len(pushed_log)
        k == IF n < window THEN n ELSE window
    IN /\ Len(mcu_z_readings) = k
       /\ Len(mcu_z_readings) <= window
       /\ \A j \in 1..k : mcu_z_readings[j] = pushed_log[n - k + j]

\* C7 witness: more samples than the window holds were pushed, and the first
\* one, evicted, differs from everything the window holds now.
C7_Witness ==
  /\ Len(pushed_log) > window
  /\ window >= 3
  /\ \A j \in 1..Len(mcu_z_readings) : mcu_z_readings[j] # pushed_log[1]
  /\ mcu_z_readings[Len(mcu_z_readings)] # mcu_z_readings[1]

\* C8: the window range is computed only on exactly window samples, so no
\* run converges at a retry below window, and a run with max_retries < window
\* never converges, whatever the samples.
C8_NoPartialWindowTest ==
  /\ ~IsNone(window_range) => Len(mcu_z_readings) = window
  /\ \A i \in 1..Len(responses) :
       (responses[i].msg = "Retry" /\ ~IsNone(responses[i].window_range))
         => responses[i].retry >= window
  /\ Succeeded => (retries >= window /\ Len(pushed_log) >= window)
  /\ (ReachedLoop /\ max_retries < window) => (~Succeeded /\ ~Returned)

\* C8 witness: max_retries < window, and the samples pushed would pass the
\* test if it were made on them; the run ended in 'Max retries exceeded'.
C8_Witness ==
  /\ Exhausted
  /\ max_retries >= 2
  /\ max_retries < window
  /\ Len(pushed_log) = max_retries
  /\ SpreadOf(pushed_log, zOffset) <= UserTolerance + 100

\* A terminal state of the run: CONVERGED, EXHAUSTED or FAILED.
Terminal == Succeeded \/ Exhausted \/ Failed

\* At most one outcome is reported, and an error ends the call.
C9_State ==
  /\ ~(Succeeded /\ raised # NoError)
  /\ Cardinality({i \in 1..Len(responses) : responses[i].msg = "Succeeded"}) <= 1
  /\ (Exhausted \/ Failed) => pc = "done"
  /\ Succeeded => pc \in {"post_loop", "done"}

\* From a terminal state the only step left is the return of the call.
C9_Step ==
  Terminal =>
    /\ UNCHANGED <<calls, pushed_log, zOffset_log, mcu_z_readings, responses,
                   retries, window_range, raised>>
    /\ pc' = "done"

\* C9: a run has at most one terminal outcome and terminal states are
\* absorbing: never both 'Succeeded' and 'Max retries exceeded', no outcome
\* after a failure, and once terminal no script, read or push.
C9_OneTerminalOutcome == [](C9_State) /\ [][C9_Step]_vars

\* C9 witness: the run converged in its last permitted iteration and returned.
C9_Witness ==
  /\ Succeeded
  /\ Returned
  /\ retries = max_retries

\* C10 as stated: whenever the last window readings differ from each other by
\* at most retry_tolerance, the run ends in success at that iteration.
C10_StableWindowSucceeds ==
  (ReachedLoop /\ Len(mcu_z_readings) = window
     /\ Max(mcu_z_readings) - Min(mcu_z_readings) <= UserTolerance)
    => Succeeded

\* The 'Retry' progress reports made so far with retry index r.
RetryReports(r) ==
  {i \in 1..Len(responses) : responses[i].msg = "Retry" /\ responses[i].retry = r}

\* The window of iteration i has a range within 0.01 + 1e-4 of 54.
ClosesGapAt(i) ==
  /\ i >= 3
  /\ Abs((Max(SamplesAt(i)) - Min(SamplesAt(i))) - 54000000) <= 10000 + 100

\* C11: with window 3, tolerance 0.01, Z offset constantly 0 and samples
\* 10.0, 10.05, 9.98 the compensated spread at retry 3 is 53.93, so retry 3
\* does not converge; the run ends in 'Max retries exceeded' after max_retries
\* iterations unless a later full window has a range within 0.01 + 1e-4 of 54.
C11_ScenarioSpread ==
  (/\ ReachedLoop
   /\ window = 3
   /\ UserTolerance = 10000
   /\ Len(pushed_log) >= 3
   /\ SubSeq(pushed_log, 1, 3) = <<10000000, 10050000, 9980000>>
   /\ \A i \in 1..Len(zOffset_log) : zOffset_log[i] = 0)
  =>
    LET n == Len(pushed_log)
    IN /\ \A i \in RetryReports(3) : responses[i].window_range = Some(53930000)
       /\ RetryReports(3) # {}
       /\ n = 3 => (window_range = Some(53930000) /\ ~Succeeded /\ retries = 4)
       /\ Succeeded => (n > 3 /\ ClosesGapAt(n))
       /\ \A i \in 4..n : ClosesGapAt(i) => (Succeeded /\ i = n)
       /\ (pc = "done" /\ ~Failed /\ ~ClosesGapAt(n))
            => (Exhausted /\ n = max_retries)

\* C11 witness: the three samples, a fourth that does not close the gap, and
\* the run ended in 'Max retries exceeded' after four iterations.
C11_Witness ==
  /\ Exhausted
  /\ window = 3
  /\ max_retries = 4
  /\ SubSeq(pushed_log, 1, 3) = <<10000000, 10050000, 9980000>>
  /\ Len(pushed_log) = 4

\* __init__ rejected the config option named.
OptionRejected(msg) == pc = "config_error" /\ raised = msg
\* The command accepts v as the value of a parameter bounded by minval.
CommandAccepts(v, minval) == GcmdGet(v, 0, minval)[1]

\* C12 as stated: the bounds on the configured defaults are those on the
\* command's parameters: a value is accepted as the option retries,
\* retry_tolerance or window if and only if it is accepted as RETRIES,
\* RETRY_TOLERANCE or WINDOW.
C12_SameBounds ==
  pc # "load_config" =>
    LET noRetries == OptionRejected("Option 'retries' must have minimum of 0")
        noTolerance ==
          OptionRejected("Option 'retry_tolerance' must be above 0.001")
        noWindow == OptionRejected("Option 'window' must have minimum of 3")
    IN /\ noRetries <=> ~CommandAccepts(config.retries, CmdMinRetries)
       /\ ~noRetries =>
            (noTolerance <=>
               ~CommandAccepts(config.retry_tolerance, CmdMinTolerance))
       /\ (~noRetries /\ ~noTolerance) =>
            (noWindow <=> ~CommandAccepts(config.window, CmdMinWindow))

\* What the run must end in, given only the parameters in effect and the
\* samples and Z offsets read: converged at the first index whose window
\* passes the test, or exhausted after max_retries iterations.
ExpectedOutcome(samples, zs, maxr, tol, w) ==
  LET win(i) == SubSeq(samples, IF i > w THEN i - w + 1 ELSE 1, i)
      pass(i) == /\ Len(win(i)) = w
                 /\ Abs((Max(win(i)) - Min(win(i))) - 3 * (18000000 + 5 * zs[i]))
                      <= tol + 100
      hits == {i \in 1..Len(samples) : i <= maxr /\ pass(i)}
  IN IF hits = {} THEN <<"EXHAUSTED", maxr>>
     ELSE <<"CONVERGED", CHOOSE i \in hits : \A j \in hits : i <= j>>

\* What the run ended in, and after how many iterations.
ActualOutcome ==
  IF Exhausted THEN <<"EXHAUSTED", Len(pushed_log)>>
  ELSE IF Returned /\ Succeeded THEN <<"CONVERGED", retries>>
  ELSE <<"NONE", 0>>

\* C13: the terminal outcome and its retry index are determined by
\* max_retries, retry_tolerance, window, the samples and the Z offsets of the
\* iterations, and by nothing else (not the reports, the stepper's name or
\* which way the parameters were given).
C13_OutcomeDetermined ==
  (pc = "done" /\ ReachedLoop /\ ~Failed) =>
    ActualOutcome = ExpectedOutcome(pushed_log, zOffset_log, max_retries,
                                    UserTolerance, window)

\* C13 witness: a run that converged after the window had slid, with two
\* different Z offsets read and a spread that four decimals would round to
\* the tolerance rejected on the way.
C13_Witness ==
  /\ Returned
  /\ Succeeded
  /\ Len(pushed_log) > window
  /\ \E i \in 1..Len(zOffset_log) : zOffset_log[i] # zOffset_log[1]
  /\ \E i \in window..(Len(pushed_log) - 1) :
       SpreadOf(SamplesAt(i), zOffset_log[i]) = UserTolerance + 100 + 1

\* C14: iterations are sequential and run before-homing script, homing,
\* reads, push, test in this order: the script of iteration n+1 starts only
\* after the test of iteration n failed, and the test of iteration n uses the
\* Z offset read in iteration n, after its script and homing.
C14_SequentialIterations ==
  ReachedLoop =>
    LET n == Len(pushed_log)
    IN /\ \A i \in 1..Len(calls) :
            calls[i].script = IF i % 2 = 1 THEN "pre_home" ELSE "G28 Z"
       /\ Len(zOffset_log) = n
       /\ pc = "pre_home" =>
            /\ Len(calls) = 2 * n
            /\ retries = n + 1
            /\ \A i \in 1..n : ~TestAt(i)
       /\ pc = "home" => (Len(calls) = 2 * n + 1 /\ retries = n + 1)
       /\ pc = "measure" => (Len(calls) = 2 * n + 2 /\ retries = n + 1)
       /\ pc \in {"while", "post_loop"} => Len(calls) = 2 * n
       /\ n >= 1 =>
            /\ zOffset = zOffset_log[n]
            /\ window_range =
                 IF Len(mcu_z_readings) = window
                 THEN Some(SpreadOf(mcu_z_readings, zOffset_log[n]))
                 ELSE None
            /\ mcu_pos = pushed_log[n]

\* C14 witness: the script of a further iteration is about to run after a
\* full window was tested with a Z offset other than the one read before it.
C14_Witness ==
  /\ pc = "pre_home"
  /\ Len(pushed_log) >= window
  /\ window >= 3
  /\ zOffset_log[Len(zOffset_log)] # zOffset_log[Len(zOffset_log) - 1]

\* The retry index stays within 1..max_retries while an iteration runs, and
\* no more than max_retries iterations are run.
C15_Bounded ==
  ReachedLoop =>
    /\ retries >= 1
    /\ retries <= max_retries + 1
    /\ pc \in {"pre_home", "home", "measure"} => retries <= max_retries
    /\ Len(pushed_log) <= max_retries
    /\ PreActionCount <= max_retries
    /\ HomingCount <= max_retries

\* retries is set to 1 when the loop is entered and afterwards only grows by
\* one, in an iteration that did not converge.
C15_Step ==
  retries' # retries =>
    \/ (pc = "ready" /\ retries' = 1)
    \/ (pc = "measure" /\ retries' = retries + 1 /\ pc' = "while")

\* C15: with every external call returning or raising, a run that entered
\* the loop reaches CONVERGED, EXHAUSTED or FAILED after at most max_retries
\* iterations: retries starts at 1, grows by exactly 1 per non-converging
\* iteration, and no iteration runs with retries > max_retries.
C15_Terminates ==
  /\ (pc = "while") ~> (pc = "done" /\ Terminal)
  /\ [](C15_Bounded)
  /\ [][C15_Step]_vars

\* C15 witness: a run of max_retries >= window iterations, none converging,
\* has ended.
C15_Witness ==
  /\ pc = "done"
  /\ Exhausted
  /\ max_retries >= window
  /\ Len(pushed_log) = max_retries
  /\ retries = max_retries + 1

\* The first window samples each exceed the previous one by exactly
\* 18 + 5*zOffset, the Z offset being the same in every iteration.
DriftingWindow ==
  /\ ReachedLoop
  /\ max_retries >= window
  /\ Len(pushed_log) >= window
  /\ \A i \in 1..Len(zOffset_log) : zOffset_log[i] = zOffset_log[1]
  /\ \A i \in 2..window :
       pushed_log[i] - pushed_log[i - 1] = 18000000 + 5 * zOffset_log[1]

\* C16 as stated: on such samples the compensated spread of the first full
\* window is 0 and the run ends CONVERGED at retry = window, for every
\* window >= 3.
C16_DriftWindowConverges ==
  DriftingWindow =>
    /\ Succeeded
    /\ Len(pushed_log) = window
    /\ retries = window
    /\ window_range = Some(0)

\* The 'stepper_z diff' reports made so far.
DiffReports == {i \in 1..Len(responses) : responses[i].msg = "stepper_z diff"}

HomingsReturned ==
  Cardinality({i \in 1..Len(calls) :
                 calls[i].script = "G28 Z" /\ calls[i].error = NoError})

C19_LastIterationConverges ==
  /\ (Succeeded /\ Len(pushed_log) = max_retries) =>
       /\ retries = max_retries
       /\ ~Exhausted
       /\ pc = "done" => Returned
  /\ Succeeded => (retries = Len(pushed_log) /\ retries <= max_retries)
  /\ pc = "post_loop" => ((retries > max_retries) <=> ~Succeeded)
  /\ Exhausted =>
       /\ ~Succeeded
       /\ \A i \in 1..Len(pushed_log) : ~TestAt(i)

\* C19 witness: the window slid, the test first passed at retry = max_retries
\* and the call returned.
C19_Witness ==
  /\ Returned
  /\ Succeeded
  /\ max_retries > window
  /\ Len(pushed_log) = max_retries
  /\ retries = max_retries

====
